---- MODULE Spec2Model ----
(***************************************************************************)
(* Model of backend/app.py of the ATS resume checker: the PDF extraction   *)
(* coordinator, the /api/analyze handler, the field extractor              *)
(* (sectionize, split_skills) and the scoring engine (compute_dashboard).  *)
(*                                                                         *)
(* The binary decoders (PyMuPDF, pdfplumber, python-docx) are opaque: what *)
(* they return for given bytes is a nondeterministic choice.  A text whose *)
(* content is only measured (len, regex counts) is represented by its      *)
(* origin and its length; the regex counts taken on it by the scoring      *)
(* engine are drawn when the engine takes them.  sectionize and            *)
(* split_skills work on the characters of their lines and are modelled on  *)
(* sequences of characters.                                                *)
(***************************************************************************)
EXTENDS Integers, Sequences, FiniteSets, TLC

VARIABLES
    pc,          \* position of the analyze handler
    upload,      \* the uploaded file: [ext, size, page_count]
    fitz,        \* TRUE iff the optional PyMuPDF import succeeded
    calls,       \* extraction strategies invoked so far, in order
    text1, meta1,    \* result of extract_text_pdf_pymupdf
    text2, meta2,    \* result of extract_text_pdf_pdfplumber, ("", {}) before it ran
    text, meta,      \* what the extractor returned to analyze
    structured,      \* the structured record
    dashboard,       \* the DashboardScore
    measured,        \* the regex counts compute_dashboard took on text
    response,        \* the JSON payload, or the HTTP error
    sec_pc,          \* position of a sectionize call
    sec_lines,       \* its argument
    sec_i,           \* index of the line the loop of lines 196-201 is at
    sec_current,     \* its "current" pointer
    sections,        \* its buckets
    sections_detected, \* extract_structured's count of them (line 254)
    sk_pc,           \* position of a split_skills call
    sk_lines,        \* its argument
    sk_parts,        \* its "parts"
    sk_i,            \* index the loop of lines 211-217 or 219-224 is at
    sk_cleaned,      \* its "cleaned"
    sk_out,          \* its "out"
    sk_seen,         \* its "seen"
    sk_result        \* what it returned

avars == <<pc, upload, fitz, calls, text1, meta1, text2, meta2, text, meta,
           structured, dashboard, measured, response>>

secvars == <<sec_pc, sec_lines, sec_i, sec_current, sections,
             sections_detected>>

skvars == <<sk_pc, sk_lines, sk_parts, sk_i, sk_cleaned, sk_out, sk_seen,
            sk_result>>

vars == <<avars, secvars, skvars>>

----------------------------------------------------------------------------
(* Bounds of the model *)

\* pages a document may have beyond the extraction cap
ExtraPages == 1
\* longest list of lines given to sectionize
MaxLines == 4
\* longest line of the exhaustively enumerated skills lines
MaxLineLen == 4
\* most tokens of a generated skills section
MaxTokens == 72

(* Program constants *)

\* default of the max_pages parameter of both PDF strategies
max_pages == 8
\* sparse-text threshold of extract_text_from_pdf
SparseThreshold == 200
\* minimum upload size accepted by analyze
MinUploadBytes == 200

----------------------------------------------------------------------------
(* Generic helpers *)

Min2(a, b) == IF a < b THEN a ELSE b
Max2(a, b) == IF a > b THEN a ELSE b

SetMin(S) == CHOOSE x \in S : \A y \in S : x <= y
SetMax(S) == CHOOSE x \in S : \A y \in S : x >= y

RECURSIVE SumSeq(_)
SumSeq(s) == IF s = <<>> THEN 0 ELSE Head(s) + SumSeq(Tail(s))

\* Python's {} : the dict with no key
EmptyDict == [k \in {} |-> 0]

\* dict.get(key, default)
DictGet(d, k, default) == IF k \in DOMAIN d THEN d[k] ELSE default

----------------------------------------------------------------------------
(* Extraction *)

\* the empty string, whoever produced it
EmptyText == [src |-> "", len |-> 0]

MkText(src, n) == IF n = 0 THEN EmptyText ELSE [src |-> src, len |-> n]

\* characters a decoder may report for one page
PageChars == {0, 120, 200, 900}

\* page counts of the uploaded documents
DocPageCounts == {0, 1, max_pages + ExtraPages}

\* per-page character counts a decoder may report for the pages it scans:
\* all pages alike, or the first page or the later pages blank
PerPageChoices(n) ==
    { [i \in 1..n |-> IF i = 1 THEN ab[1] ELSE ab[2]] :
      ab \in { p \in PageChars \X PageChars :
                 p[1] = p[2] \/ p[1] = 0 \/ p[2] = 0 } }

\* len("\n".join(parts).strip()) for page texts of the given lengths: the
\* pages are joined with one newline between them and the strip removes the
\* newlines around leading and trailing empty pages (a page's own text is
\* taken to begin and end with a non-blank character)
JoinStripLen(per_page) ==
    LET nz == { i \in DOMAIN per_page : per_page[i] > 0 }
    IN  IF nz = {} THEN 0
        ELSE LET lo == SetMin(nz)
                 hi == SetMax(nz)
             IN  SumSeq(SubSeq(per_page, lo, hi)) + (hi - lo)

\* the results extract_text_pdf_pymupdf may return for a document
extract_text_pdf_pymupdf(page_count, available) ==
    IF ~available
    THEN { <<EmptyText, [method |-> "pymupdf_unavailable", pages |-> 0,
                         per_page_characters |-> <<>>]>> }
    ELSE { <<MkText("pymupdf", JoinStripLen(pp)),
             [method |-> "pymupdf", pages |-> page_count,
              per_page_characters |-> pp]>> :
           pp \in PerPageChoices(Min2(max_pages, page_count)) }

\* the results extract_text_pdf_pdfplumber may return for a document
extract_text_pdf_pdfplumber(page_count) ==
    { <<MkText("pdfplumber", JoinStripLen(pp)),
        [method |-> "pdfplumber", pages |-> page_count,
         per_page_characters |-> pp]>> :
      pp \in PerPageChoices(Min2(max_pages, page_count)) }

\* line 88: the fallback runs iff the primary text is too short
NeedsFallback(t1) == t1.len < SparseThreshold

\* PickExtraction with the metadata never exchanged
PickExtractionMetaMut(t1, m1, t2, m2) ==
    IF t2.len > t1.len
    THEN <<t2, [primary |-> m1, fallback |-> m2]>>
    ELSE <<t1, [primary |-> m1, fallback |-> m2]>>
\* PickExtraction with a tie going to the fallback text
PickExtractionMut(t1, m1, t2, m2) ==
    IF t2.len >= t1.len
    THEN <<t2, [primary |-> m2, fallback |-> m1]>>
    ELSE <<t1, [primary |-> m1, fallback |-> m2]>>
\* lines 90-92: the result of extract_text_from_pdf once both texts are known
\* (t2 = "" and m2 = {} when the fallback did not run)
PickExtraction(t1, m1, t2, m2) ==
    IF t2.len > t1.len
    THEN <<t2, [primary |-> m2, fallback |-> m1]>>
    ELSE <<t1, [primary |-> m1, fallback |-> m2]>>

\* text lengths python-docx may yield (paragraph and table-row lines joined)
DocxLens == {0, 120, 900, 7000}

\* the results extract_text_from_docx may return
extract_text_from_docx ==
    { <<MkText("python-docx", n),
        [method |-> "python-docx", paragraphs |-> p, tables |-> 0]>> :
      n \in DocxLens, p \in {1, 4} }

----------------------------------------------------------------------------
(* Field extractor, as seen by the scoring engine *)

SectionKeys == {"summary", "skills", "experience", "education", "projects",
                "certifications", "languages"}

\* lines 192-193
EmptySections == [k \in SectionKeys \cup {"_unknown"} |-> <<>>]

\* the record analyze substitutes when there is no text (lines 514-526)
EmptyStructured ==
    [contacts |-> [emails |-> <<>>, phones |-> <<>>, linkedin |-> <<>>,
                   github |-> <<>>, portfolio |-> <<>>],
     sections_detected |-> EmptyDict]

\* contact sets find_contacts may recover from a text
ContactChoices ==
    { [emails |-> e, phones |-> p, linkedin |-> l, github |-> <<>>,
       portfolio |-> <<>>] :
      e \in {<<>>, <<"john.doe@example.com">>},
      p \in {<<>>, <<"+1 415 555 0100">>},
      l \in {<<>>, <<"linkedin.com/in/johndoe">>} }

\* line counts sectionize may find per canonical section
SectionCountChoices ==
    { [k \in SectionKeys |-> IF k \in D THEN 3 ELSE 0] :
      D \in SUBSET {"skills", "education", "experience"}
            \cup { {"projects"}, {"skills", "education", "projects"} } }

\* the values of extract_structured(text) the scoring engine reads
extract_structured ==
    { [contacts |-> c, sections_detected |-> sd] :
      c \in ContactChoices, sd \in SectionCountChoices }

----------------------------------------------------------------------------
(* Scoring engine *)

\* the suggestion strings (the en dash of line 424 is written "-")
S_ocr      == "Export your resume as a text-based PDF (not scanned). If needed, run OCR before uploading."
S_email    == "Add a professional email near the top in plain text."
S_phone    == "Add a phone number in plain text (include country code)."
S_link     == "Add LinkedIn/GitHub/portfolio link in plain text."
S_skills   == "Add a clear 'Skills' section with keywords (tools, languages, platforms)."
S_edu      == "Add an 'Education' section with degree + dates."
S_exp      == "Add 'Experience' or 'Projects' with impact bullets and tech used."
S_impact   == "Add measurable results: %, time saved, users, revenue, speed, KPIs."
S_rep      == "Reduce repeated words; vary action verbs and rewrite duplicated phrases."
S_short    == "Add more relevant bullets, projects, tools, and responsibilities."
S_long     == "Aim for 1-2 pages and prioritize relevant content."
S_noise    == "Avoid too many icons/symbols; keep headings consistent and readable."
S_notext   == "No text could be extracted. If this is a scanned PDF, run OCR or export as a text-based PDF."

\* str.lower() on the suggestion strings
StrLower(s) ==
    CASE s = S_ocr    -> "export your resume as a text-based pdf (not scanned). if needed, run ocr before uploading."
      [] s = S_email  -> "add a professional email near the top in plain text."
      [] s = S_phone  -> "add a phone number in plain text (include country code)."
      [] s = S_link   -> "add linkedin/github/portfolio link in plain text."
      [] s = S_skills -> "add a clear 'skills' section with keywords (tools, languages, platforms)."
      [] s = S_edu    -> "add an 'education' section with degree + dates."
      [] s = S_exp    -> "add 'experience' or 'projects' with impact bullets and tech used."
      [] s = S_impact -> "add measurable results: %, time saved, users, revenue, speed, kpis."
      [] s = S_rep    -> "reduce repeated words; vary action verbs and rewrite duplicated phrases."
      [] s = S_short  -> "add more relevant bullets, projects, tools, and responsibilities."
      [] s = S_long   -> "aim for 1-2 pages and prioritize relevant content."
      [] s = S_noise  -> "avoid too many icons/symbols; keep headings consistent and readable."
      [] s = S_notext -> "no text could be extracted. if this is a scanned pdf, run ocr or export as a text-based pdf."

clamp(v, lo, hi) == Max2(lo, Min2(hi, v))

CheckItem(key, label, score, status, note) ==
    [key |-> key, label |-> label, score |-> score, status |-> status,
     note |-> note]

\* StatusOf with the pass threshold at 95
StatusOfMut(score) ==
    IF score >= 95 THEN "pass" ELSE IF score >= 60 THEN "warn" ELSE "fail"
\* lines 352, 374
StatusOf(score) ==
    IF score >= 85 THEN "pass" ELSE IF score >= 60 THEN "warn" ELSE "fail"

\* lines 291-296: avg_chars < 250, on the exact quotient
AvgCharsBelow250(char_count, m) ==
    LET primary  == DictGet(m, "primary", EmptyDict)
        per_page == DictGet(primary, "per_page_characters", <<>>)
        p0       == DictGet(primary, "pages", 1)
        pages    == IF p0 = 0 THEN 1 ELSE p0
    IN  IF per_page # <<>>
        THEN SumSeq(per_page) < 250 * Max2(1, Len(per_page))
        ELSE char_count < 250 * Max2(1, pages)

likely_scanned(char_count, m) ==
    char_count < 800 \/ AvgCharsBelow250(char_count, m)

\* lines 302-313 (the counts of bullets, years and 4-space runs, the rounded
\* average and the pymupdf_available flag feed no check and are left out)
Signals(t, m, ms) ==
    LET primary == DictGet(m, "primary", EmptyDict)
        p0      == DictGet(primary, "pages", 1)
    IN  [pages |-> IF p0 = 0 THEN 1 ELSE p0,
         word_count |-> ms.word_count,
         likely_scanned_pdf |-> likely_scanned(t.len, m),
         char_count |-> t.len,
         extractor |-> DictGet(primary, "method", "None")]

\* what one check contributes: its CheckItem, its increments of issues and
\* the suggestions it appends
CheckResult(item, issues, suggestions) ==
    [item |-> item, issues |-> issues, suggestions |-> suggestions]

\* lines 320-328
ats_parse_check(scanned) ==
    IF scanned
    THEN CheckResult(CheckItem("ats_parse", "ATS Parse Rate", 30, "fail",
                               "Looks scanned or image-based."),
                     1, <<S_ocr>>)
    ELSE CheckResult(CheckItem("ats_parse", "ATS Parse Rate", 92, "pass",
                               "Text extraction works."),
                     0, <<>>)

\* lines 330-355; the note is kept as the list of its parts
contact_check(contacts) ==
    LET no_email == contacts.emails = <<>>
        no_phone == contacts.phones = <<>>
        has_link == contacts.linkedin # <<>> \/ contacts.github # <<>>
                    \/ contacts.portfolio # <<>>
        raw   == 100 - (IF no_email THEN 45 ELSE 0)
                     - (IF no_phone THEN 25 ELSE 0)
                     - (IF ~has_link THEN 10 ELSE 0)
        score == clamp(raw, 0, 100)
        parts == (IF no_email THEN <<"No email found">> ELSE <<>>)
                 \o (IF no_phone THEN <<"No phone found">> ELSE <<>>)
                 \o (IF ~has_link THEN <<"No profile links found">> ELSE <<>>)
    IN  CheckResult(
            CheckItem("contact", "Contact Details", score, StatusOf(score),
                      IF parts # <<>> THEN parts ELSE <<"Looks complete.">>),
            (IF no_email THEN 1 ELSE 0) + (IF no_phone THEN 1 ELSE 0),
            (IF no_email THEN <<S_email>> ELSE <<>>)
            \o (IF no_phone THEN <<S_phone>> ELSE <<>>)
            \o (IF ~has_link THEN <<S_link>> ELSE <<>>))

\* lines 357-375; the note is kept as the list of the missing sections
sections_check(sec) ==
    LET has_skills == DictGet(sec, "skills", 0) > 0
        has_edu    == DictGet(sec, "education", 0) > 0
        has_exp_or_proj == DictGet(sec, "experience", 0) > 0
                           \/ DictGet(sec, "projects", 0) > 0
        raw   == 100 - (IF ~has_skills THEN 35 ELSE 0)
                     - (IF ~has_edu THEN 20 ELSE 0)
                     - (IF ~has_exp_or_proj THEN 35 ELSE 0)
        score == clamp(raw, 0, 100)
        missing == (IF ~has_skills THEN <<"Skills">> ELSE <<>>)
                   \o (IF ~has_edu THEN <<"Education">> ELSE <<>>)
                   \o (IF ~has_exp_or_proj THEN <<"Experience/Projects">> ELSE <<>>)
    IN  CheckResult(
            CheckItem("sections", "Sections", score, StatusOf(score),
                      IF missing # <<>> THEN <<"Missing: ">> \o missing
                      ELSE <<"All key sections detected.">>),
            (IF ~has_skills THEN 1 ELSE 0) + (IF ~has_edu THEN 1 ELSE 0)
            + (IF ~has_exp_or_proj THEN 1 ELSE 0),
            (IF ~has_skills THEN <<S_skills>> ELSE <<>>)
            \o (IF ~has_edu THEN <<S_edu>> ELSE <<>>)
            \o (IF ~has_exp_or_proj THEN <<S_exp>> ELSE <<>>))

\* lines 377-390
impact_check(nums) ==
    IF nums < 6
    THEN CheckResult(CheckItem("impact", "Quantifying Impact",
                               clamp(80 - 25, 0, 100), "warn",
                               "Few numbers/metrics found."),
                     1, <<S_impact>>)
    ELSE CheckResult(CheckItem("impact", "Quantifying Impact",
                               clamp(92, 0, 100), "pass",
                               "Good amount of metrics."),
                     0, <<>>)

\* lines 392-409; top is the count of the most frequent word of 4 or more
\* characters, 0 when the text has no such word
repetition_check(top) ==
    IF top > 0 /\ top >= 18
    THEN CheckResult(CheckItem("repetition", "Repetition", 65, "warn",
                               <<"High repetition", top>>),
                     1, <<S_rep>>)
    ELSE CheckResult(CheckItem("repetition", "Repetition", 90, "pass",
                               "Looks fine."),
                     0, <<>>)

\* lines 411-428
brevity_check(word_count) ==
    IF word_count < 220
    THEN CheckResult(CheckItem("brevity", "Format & Brevity", 62, "warn",
                               "Resume is short (low keyword coverage)."),
                     1, <<S_short>>)
    ELSE IF word_count > 1200
    THEN CheckResult(CheckItem("brevity", "Format & Brevity", 60, "warn",
                               "Resume is long (harder to scan)."),
                     1, <<S_long>>)
    ELSE CheckResult(CheckItem("brevity", "Format & Brevity", 92, "pass",
                               "Length looks reasonable."),
                     0, <<>>)

\* lines 430-446
grammar_check(caps, weird) ==
    IF caps > 25 \/ weird > 80
    THEN CheckResult(CheckItem("grammar", "Spelling & Grammar", 65, "warn",
                               "Formatting noise detected (icons/symbols/caps)."),
                     1, <<S_noise>>)
    ELSE CheckResult(CheckItem("grammar", "Spelling & Grammar", 86, "pass",
                               "Basic check only (offline)."),
                     0, <<>>)

\* WeightedSum100 with the grammar weight at 0.10
WeightedSum100Mut(a, c, s, i, r, b, g) ==
    30 * a + 15 * c + 15 * s + 12 * i + 10 * r + 10 * b + 10 * g
\* lines 449-457, in hundredths: the weights times 100 are integers
WeightedSum100(a, c, s, i, r, b, g) ==
    30 * a + 15 * c + 15 * s + 12 * i + 10 * r + 10 * b + 8 * g

\* line 458: int(round(clamp(overall, 0, 100))) of the double that the sum
\* of lines 449-457 yields.  Off a tie the double rounds as the exact sum.
\* On a tie (exact sum x.5) the double is x.5 + 1e-14 when the sum is below
\* 64, which rounds up, and exactly x.5 from 64 on (the error is below the
\* spacing of doubles there), which round() takes to the even neighbour.
RoundOverall(s100) ==
    LET v == clamp(s100, 0, 10000)
        q == v \div 100
        r == v % 100
    IN  IF r < 50 THEN q
        ELSE IF r > 50 THEN q + 1
        ELSE IF v >= 6400 THEN (IF q % 2 = 0 THEN q ELSE q + 1)
        ELSE q + 1

\* AtsFriendly without the test of the parse rate
AtsFriendlyMut(ats_parse, overall) == overall >= 60
\* line 460
AtsFriendly(ats_parse, overall) == ats_parse >= 70 /\ overall >= 60

\* lines 462-471
GradeOf(overall) ==
    IF overall >= 90 THEN "Excellent"
    ELSE IF overall >= 80 THEN "Great"
    ELSE IF overall >= 70 THEN "Good"
    ELSE IF overall >= 60 THEN "Fair"
    ELSE "Needs work"

\* lines 473-481: drop every string whose lowercase was seen before
RECURSIVE DedupFrom(_, _)
DedupFrom(suggestions, seen) ==
    IF suggestions = <<>> THEN <<>>
    ELSE LET s == Head(suggestions)
             k == StrLower(s)
         IN  IF k \in seen THEN DedupFrom(Tail(suggestions), seen)
             ELSE <<s>> \o DedupFrom(Tail(suggestions), seen \cup {k})

\* line 490: dedup[:12]
MaxSuggestions == 12
\* Truncate cutting at 6
TruncateMut(s) == SubSeq(s, 1, Min2(Len(s), 6))
Truncate(s) == SubSeq(s, 1, Min2(Len(s), MaxSuggestions))

\* RunChecks with brevity and grammar exchanged
RunChecksMut(t, m, st, ms) ==
    << ats_parse_check(likely_scanned(t.len, m)),
       contact_check(st.contacts),
       sections_check(st.sections_detected),
       impact_check(ms.nums),
       repetition_check(ms.top),
       grammar_check(ms.caps, ms.weird),
       brevity_check(ms.word_count) >>
\* the seven checks in the order compute_dashboard appends them
RunChecks(t, m, st, ms) ==
    << ats_parse_check(likely_scanned(t.len, m)),
       contact_check(st.contacts),
       sections_check(st.sections_detected),
       impact_check(ms.nums),
       repetition_check(ms.top),
       brevity_check(ms.word_count),
       grammar_check(ms.caps, ms.weird) >>

RECURSIVE ConcatSuggestions(_)
ConcatSuggestions(rs) ==
    IF rs = <<>> THEN <<>>
    ELSE Head(rs).suggestions \o ConcatSuggestions(Tail(rs))

\* SumIssues counting a check once however many increments it made
SumIssuesMut(rs) == Cardinality({ i \in DOMAIN rs : rs[i].issues > 0 })
\* lines 318-439: every "issues += 1" a check executed
RECURSIVE SumIssues(_)
SumIssues(rs) ==
    IF rs = <<>> THEN 0 ELSE Head(rs).issues + SumIssues(Tail(rs))

\* lines 284-492: text t, extraction meta m, structured record st and the
\* regex counts ms that lines 286, 378, 394-398, 435, 436 take on the text
compute_dashboard(t, m, st, ms) ==
    LET rs == RunChecks(t, m, st, ms)
        sc == [i \in DOMAIN rs |-> rs[i].item.score]
        overall == RoundOverall(WeightedSum100(sc[1], sc[2], sc[3], sc[4],
                                               sc[5], sc[6], sc[7]))
    IN  [score |-> overall,
         issues |-> SumIssues(rs),
         ats_parse_rate |-> sc[1],
         checks |-> [i \in DOMAIN rs |-> rs[i].item],
         ats_friendly |-> AtsFriendly(sc[1], overall),
         grade |-> GradeOf(overall),
         suggestions |-> Truncate(DedupFrom(ConcatSuggestions(rs), {})),
         signals |-> Signals(t, m, ms)]

\* DegradedDashboard without the extraction_failed signal
DegradedDashboardMut(m) ==
    [score |-> 20, issues |-> 1, ats_parse_rate |-> 10, checks |-> <<>>,
     ats_friendly |-> FALSE, grade |-> "Needs work",
     suggestions |-> <<S_notext>>,
     signals |-> m]
\* lines 528-533: the dashboard analyze builds when there is no text
DegradedDashboard(m) ==
    [score |-> 20, issues |-> 1, ats_parse_rate |-> 10, checks |-> <<>>,
     ats_friendly |-> FALSE, grade |-> "Needs work",
     suggestions |-> <<S_notext>>,
     signals |-> [k \in {"extraction_failed"} \cup DOMAIN m |->
                    IF k \in DOMAIN m THEN m[k] ELSE TRUE]]

----------------------------------------------------------------------------
(* Regex counts the scoring engine takes on a text *)

\* <<caps, weird>>: ALL-CAPS words of 4+ letters, non-standard symbols
NoiseChoices == { <<0, 0>>, <<26, 0>>, <<0, 81>> }

\* the counts a text of the given length can have: word_count words need a
\* separator between them, a number is (the start of) a word, the top word
\* and the capitalised words have 4 or more characters, a symbol is no word
\* character
Measurements(t) ==
    { ms \in { [word_count |-> w, nums |-> n, top |-> tp, caps |-> nz[1],
                weird |-> nz[2]] :
               w \in {20, 150, 600, 1300}, n \in {0, 6}, tp \in {0, 18},
               nz \in NoiseChoices } :
        /\ 2 * ms.word_count - 1 + ms.weird <= t.len
        /\ ms.nums <= ms.word_count
        /\ ms.top <= ms.word_count
        /\ 5 * ms.top - 1 <= t.len
        /\ ms.caps <= ms.word_count
        /\ 5 * ms.caps - 1 <= t.len }

----------------------------------------------------------------------------
(* The analyze handler *)

Uploads ==
    { [ext |-> "pdf", size |-> sz, page_count |-> n] :
      sz \in {0, 199, 5000}, n \in DocPageCounts }
    \cup { [ext |-> e, size |-> sz, page_count |-> 0] :
           e \in {"docx", "txt"}, sz \in {0, 199, 5000} }

\* no split_skills call is under way
SkillsIdle ==
    /\ sk_pc = "idle"
    /\ sk_lines = <<>>
    /\ sk_parts = <<>>
    /\ sk_i = 0
    /\ sk_cleaned = <<>>
    /\ sk_out = <<>>
    /\ sk_seen = {}
    /\ sk_result = <<>>

\* no sectionize call is under way
SectIdle ==
    /\ sec_pc = "idle"
    /\ sec_lines = <<>>
    /\ sec_i = 0
    /\ sec_current = "_unknown"
    /\ sections = EmptySections
    /\ sections_detected = EmptyDict

Init ==
    /\ pc = "start"
    /\ upload \in Uploads
    /\ fitz \in BOOLEAN
    /\ calls = <<>>
    /\ text1 = EmptyText /\ meta1 = EmptyDict
    /\ text2 = EmptyText /\ meta2 = EmptyDict
    /\ text = EmptyText /\ meta = EmptyDict
    /\ structured = EmptyDict
    /\ dashboard = EmptyDict
    /\ measured = EmptyDict
    /\ response = EmptyDict
    /\ SectIdle
    /\ SkillsIdle

\* lines 500-502
RejectEmpty ==
    /\ pc = "start"
    /\ upload.size < MinUploadBytes
    /\ response' = [status |-> 400, detail |-> "Empty or invalid file."]
    /\ pc' = "error"
    /\ UNCHANGED <<upload, fitz, calls, text1, meta1, text2, meta2, text,
                   meta, structured, dashboard, measured>>
    /\ UNCHANGED <<secvars, skvars>>

\* lines 511-512
RejectKind ==
    /\ pc = "start"
    /\ upload.size >= MinUploadBytes
    /\ upload.ext \notin {"pdf", "docx"}
    /\ response' = [status |-> 400, detail |-> "Upload a PDF or DOCX file."]
    /\ pc' = "error"
    /\ UNCHANGED <<upload, fitz, calls, text1, meta1, text2, meta2, text,
                   meta, structured, dashboard, measured>>
    /\ UNCHANGED <<secvars, skvars>>

\* lines 507-508, 86-88: extract_text_from_pdf runs the primary strategy
PdfPrimary ==
    /\ pc = "start"
    /\ upload.size >= MinUploadBytes
    /\ upload.ext = "pdf"
    /\ \E r \in extract_text_pdf_pymupdf(upload.page_count, fitz) :
          /\ text1' = r[1]
          /\ meta1' = r[2]
          /\ pc' = IF NeedsFallback(r[1]) THEN "pdf_fallback" ELSE "pdf_return"
    /\ text2' = EmptyText
    /\ meta2' = EmptyDict
    /\ calls' = Append(calls, "pymupdf")
    /\ UNCHANGED <<upload, fitz, text, meta, structured, dashboard, measured,
                   response>>
    /\ UNCHANGED <<secvars, skvars>>

\* line 89
PdfFallback ==
    /\ pc = "pdf_fallback"
    /\ \E r \in extract_text_pdf_pdfplumber(upload.page_count) :
          /\ text2' = r[1]
          /\ meta2' = r[2]
    /\ calls' = Append(calls, "pdfplumber")
    /\ pc' = "pdf_return"
    /\ UNCHANGED <<upload, fitz, text1, meta1, text, meta, structured,
                   dashboard, measured, response>>
    /\ UNCHANGED <<secvars, skvars>>

\* lines 90-92, 508
PdfReturn ==
    /\ pc = "pdf_return"
    /\ text' = PickExtraction(text1, meta1, text2, meta2)[1]
    /\ meta' = PickExtraction(text1, meta1, text2, meta2)[2]
    /\ pc' = "structured"
    /\ UNCHANGED <<upload, fitz, calls, text1, meta1, text2, meta2,
                   structured, dashboard, measured, response>>
    /\ UNCHANGED <<secvars, skvars>>

\* lines 509-510
Docx ==
    /\ pc = "start"
    /\ upload.size >= MinUploadBytes
    /\ upload.ext = "docx"
    /\ \E r \in extract_text_from_docx :
          /\ text' = r[1]
          /\ meta' = r[2]
    /\ calls' = Append(calls, "python-docx")
    /\ pc' = "structured"
    /\ UNCHANGED <<upload, fitz, text1, meta1, text2, meta2, structured,
                   dashboard, measured, response>>
    /\ UNCHANGED <<secvars, skvars>>

\* lines 514-526
Structure ==
    /\ pc = "structured"
    /\ IF text # EmptyText
       THEN structured' \in extract_structured
       ELSE structured' = EmptyStructured
    /\ pc' = "score"
    /\ UNCHANGED <<upload, fitz, calls, text1, meta1, text2, meta2, text,
                   meta, dashboard, measured, response>>
    /\ UNCHANGED <<secvars, skvars>>

\* line 528, text not empty
Score ==
    /\ pc = "score"
    /\ text # EmptyText
    /\ \E ms \in Measurements(text) :
          /\ measured' = ms
          /\ dashboard' = compute_dashboard(text, meta, structured, ms)
    /\ pc' = "respond"
    /\ UNCHANGED <<upload, fitz, calls, text1, meta1, text2, meta2, text,
                   meta, structured, response>>
    /\ UNCHANGED <<secvars, skvars>>

\* lines 528-533, text empty
ScoreDegraded ==
    /\ pc = "score"
    /\ text = EmptyText
    /\ dashboard' = DegradedDashboard(meta)
    /\ pc' = "respond"
    /\ UNCHANGED <<upload, fitz, calls, text1, meta1, text2, meta2, text,
                   meta, structured, measured, response>>
    /\ UNCHANGED <<secvars, skvars>>

\* lines 535-543
Respond ==
    /\ pc = "respond"
    /\ response' = [status |-> 200, meta |-> meta, structured |-> structured,
                    dashboard |-> dashboard]
    /\ pc' = "done"
    /\ UNCHANGED <<upload, fitz, calls, text1, meta1, text2, meta2, text,
                   meta, structured, dashboard, measured>>
    /\ UNCHANGED <<secvars, skvars>>

Next ==
    \/ RejectEmpty
    \/ RejectKind
    \/ PdfPrimary
    \/ PdfFallback
    \/ PdfReturn
    \/ Docx
    \/ Structure
    \/ Score
    \/ ScoreDegraded
    \/ Respond

Spec == Init /\ [][Next]_vars

----------------------------------------------------------------------------
(* sectionize: lines are sequences of characters *)

UpperAlpha == <<"A", "B", "C", "D", "E", "F", "G", "H", "I", "J", "K", "L",
                "M", "N", "O", "P", "Q", "R", "S", "T", "U", "V", "W", "X",
                "Y", "Z">>
LowerAlpha == <<"a", "b", "c", "d", "e", "f", "g", "h", "i", "j", "k", "l",
                "m", "n", "o", "p", "q", "r", "s", "t", "u", "v", "w", "x",
                "y", "z">>

\* str.lower() on one character
LowerOf == [c \in { UpperAlpha[i] : i \in DOMAIN UpperAlpha } |->
              LowerAlpha[CHOOSE i \in DOMAIN UpperAlpha : UpperAlpha[i] = c]]
LowerChar(c) == IF c \in DOMAIN LowerOf THEN LowerOf[c] ELSE c

\* str.lower()
Lower(s) == [i \in DOMAIN s |-> LowerChar(s[i])]

\* whitespace characters; "<bullet>" stands for the character U+2022
Whitespace == {" ", "\t", "\n"}
HeadingStrip == {":", "-", "<bullet>", "*", " "}

\* str.strip(chars)
Strip(s, chars) ==
    LET keep == { i \in DOMAIN s : s[i] \notin chars }
    IN  IF keep = {} THEN <<>>
        ELSE SubSeq(s, SetMin(keep), SetMax(keep))

\* the string of a sequence of characters
RECURSIVE Cat(_)
Cat(s) == IF s = <<>> THEN "" ELSE Head(s) \o Cat(Tail(s))

\* lines 119-127, in the order of the dict
SECTION_ALIASES == <<
    <<"summary", <<"summary", "profile", "about", "about me",
                   "professional summary", "career summary", "objective">> >>,
    <<"skills", <<"skills", "technical skills", "core skills", "key skills",
                  "competencies", "tools", "technologies">> >>,
    <<"experience", <<"experience", "work experience", "employment",
                      "professional experience", "work history",
                      "internship">> >>,
    <<"education", <<"education", "academics", "academic background",
                     "qualifications">> >>,
    <<"projects", <<"projects", "personal projects", "selected projects">> >>,
    <<"certifications", <<"certifications", "certificates", "licenses",
                          "training">> >>,
    <<"languages", <<"languages", "language">> >> >>

Range(f) == { f[i] : i \in DOMAIN f }

\* lines 181-184: the last key listing an alias owns it
Aliases == UNION { Range(SECTION_ALIASES[i][2]) : i \in DOMAIN SECTION_ALIASES }
alias_to_key ==
    [a \in Aliases |->
        SECTION_ALIASES[SetMax({ i \in DOMAIN SECTION_ALIASES :
                                  a \in Range(SECTION_ALIASES[i][2]) })][1]]

MaxHeadingLen == 44

\* lines 186-190; "None" stands for None
heading_key(line) ==
    LET l == Strip(Strip(Lower(line), HeadingStrip), Whitespace)
    IN  IF Len(l) > MaxHeadingLen THEN "None"
        ELSE DictGet(alias_to_key, Cat(l), "None")

\* SectStep without the continue of line 200: the heading is appended too
SectStepMut(secs, cur, line) ==
    LET key == heading_key(line)
        now == IF key # "None" THEN key ELSE cur
    IN  <<[secs EXCEPT ![now] = Append(@, line)], now>>
\* lines 197-201: one turn of the loop, on buckets secs and pointer cur
SectStep(secs, cur, line) ==
    LET key == heading_key(line)
    IN  IF key # "None"
        THEN <<secs, key>>
        ELSE <<[secs EXCEPT ![cur] = Append(@, line)], cur>>

\* line 254
SectionsDetected(secs) ==
    [k \in DOMAIN secs \ {"_unknown"} |-> Len(secs[k])]

\* the lines the lists given to sectionize are made of
SampleLines == {
    <<"S", "k", "i", "l", "l", "s">>,
    <<"S", "K", "I", "L", "L", "S", ":">>,
    <<"-", " ", "E", "d", "u", "c", "a", "t", "i", "o", "n", " ", "-">>,
    <<"*", " ", "W", "o", "r", "k", " ", "E", "x", "p", "e", "r", "i", "e", "n", "c", "e">>,
    <<"P", "y", "t", "h", "o", "n", ",", " ", "G", "o">>,
    <<"S", "k", "i", "l", "l", "s", ":", " ", "P", "y", "t", "h", "o", "n">>
    }

RECURSIVE SeqsUpTo(_, _)
SeqsUpTo(S, n) ==
    IF n = 0 THEN { <<>> }
    ELSE LET shorter == SeqsUpTo(S, n - 1)
         IN  shorter \cup { Append(q, x) : q \in shorter, x \in S }

AnalyzeIdle ==
    /\ pc = "idle"
    /\ upload = EmptyDict
    /\ fitz = FALSE
    /\ calls = <<>>
    /\ text1 = EmptyText /\ meta1 = EmptyDict
    /\ text2 = EmptyText /\ meta2 = EmptyDict
    /\ text = EmptyText /\ meta = EmptyDict
    /\ structured = EmptyDict
    /\ dashboard = EmptyDict
    /\ measured = EmptyDict
    /\ response = EmptyDict

\* a call of sectionize, after lines 192-195
InitSect ==
    /\ AnalyzeIdle
    /\ sec_pc = "loop"
    /\ sec_lines \in SeqsUpTo(SampleLines, MaxLines)
    /\ sec_i = 1
    /\ sec_current = "_unknown"
    /\ sections = EmptySections
    /\ sections_detected = EmptyDict
    /\ SkillsIdle

\* lines 196-201
SectionizeLine ==
    /\ sec_pc = "loop"
    /\ sec_i <= Len(sec_lines)
    /\ sections' = SectStep(sections, sec_current, sec_lines[sec_i])[1]
    /\ sec_current' = SectStep(sections, sec_current, sec_lines[sec_i])[2]
    /\ sec_i' = sec_i + 1
    /\ UNCHANGED <<sec_pc, sec_lines, sections_detected>>
    /\ UNCHANGED <<avars, skvars>>

\* lines 202, 254
SectionizeReturn ==
    /\ sec_pc = "loop"
    /\ sec_i > Len(sec_lines)
    /\ sections_detected' = SectionsDetected(sections)
    /\ sec_pc' = "done"
    /\ UNCHANGED <<sec_lines, sec_i, sec_current, sections>>
    /\ UNCHANGED <<avars, skvars>>

NextSect ==
    \/ SectionizeLine
    \/ SectionizeReturn

SpecSect == InitSect /\ [][NextSect]_vars

----------------------------------------------------------------------------
(* split_skills: strings are sequences of characters *)

Digits == {"0", "1", "2", "3", "4", "5", "6", "7", "8", "9"}

IsLetter(c) == c \in Range(UpperAlpha) \cup Range(LowerAlpha)

\* \w, on the characters of the model
IsWordChar(c) == IsLetter(c) \/ c \in Digits \/ c = "_"

\* line 206: " ".join(skills_lines)
RECURSIVE JoinLines(_)
JoinLines(ls) ==
    IF ls = <<>> THEN <<>>
    ELSE IF Len(ls) = 1 THEN ls[1]
    ELSE ls[1] \o <<" ">> \o JoinLines(Tail(ls))

\* the class [A-Za-z\s/&-] of the regex of line 208
InPrefixClass(c) == IsLetter(c) \/ c \in Whitespace \/ c \in {"/", "&", "-"}

MinPrefixRun == 2
MaxPrefixRun == 30

\* the lengths n of [A-Za-z\s/&-]{2,30} with which the regex of line 208
\* matches at position i: a word boundary, a letter, n class characters, ":"
PrefixRuns(t, i) ==
    IF /\ IsLetter(t[i])
       /\ (i = 1 \/ ~IsWordChar(t[i - 1]))
    THEN { n \in MinPrefixRun..MaxPrefixRun :
             /\ i + n + 1 <= Len(t)
             /\ \A j \in (i + 1)..(i + n) : InPrefixClass(t[j])
             /\ t[i + n + 1] = ":" }
    ELSE {}

\* the position after the match at i: the greedy run, the colon and \s*
PrefixEnd(t, i) ==
    LET colon == i + SetMax(PrefixRuns(t, i)) + 1
        stop  == { j \in (colon + 1)..(Len(t) + 1) :
                     j = Len(t) + 1 \/ t[j] \notin Whitespace }
    IN  SetMin({ j \in stop : \A x \in (colon + 1)..(j - 1) : t[x] \in Whitespace })

\* line 208: re.sub(..., "", t) from position i on: the text up to the
\* leftmost match is kept, the match is dropped, the scan resumes after it
RECURSIVE RemovePrefixes(_, _)
RemovePrefixes(t, i) ==
    LET starts == { j \in i..Len(t) : PrefixRuns(t, j) # {} }
    IN  IF starts = {} THEN SubSeq(t, i, Len(t))
        ELSE LET m == SetMin(starts)
             IN  SubSeq(t, i, m - 1) \o RemovePrefixes(t, PrefixEnd(t, m))

\* the class of the regex of line 209; "<bullet>" is U+2022, "<middot>" U+00B7
SkillDelims == {"<bullet>", "<middot>", "|", "\n", ",", ";", "/"}

\* line 209: re.split on runs of delimiters, from position i on: the part
\* up to the next run of delimiters, then the parts after that run
RECURSIVE SplitFrom(_)
SplitFrom(t) ==
    LET ds == { j \in DOMAIN t : t[j] \in SkillDelims }
    IN  IF ds = {} THEN <<t>>
        ELSE LET d    == SetMin(ds)
                 rest == { j \in (d + 1)..(Len(t) + 1) :
                             j = Len(t) + 1 \/ t[j] \notin SkillDelims }
                 e    == SetMin(rest)
             IN  <<SubSeq(t, 1, d - 1)>> \o SplitFrom(SubSeq(t, e, Len(t)))

\* lines 130-131: strip, then every run of whitespace becomes one space
RECURSIVE CollapseFrom(_, _)
CollapseFrom(s, i) ==
    IF i > Len(s) THEN <<>>
    ELSE IF s[i] \in Whitespace
    THEN IF i > 1 /\ s[i - 1] \in Whitespace
         THEN CollapseFrom(s, i + 1)
         ELSE <<" ">> \o CollapseFrom(s, i + 1)
    ELSE <<s[i]>> \o CollapseFrom(s, i + 1)

normalize(s) == CollapseFrom(Strip(s, Whitespace), 1)

MaxSkillLen == 45
MaxSkills == 70

\* lines 212-217: one turn of the first loop
CleanStep(cleaned, part) ==
    LET q == normalize(part)
    IN  IF q = <<>> THEN cleaned
        ELSE IF Len(q) > MaxSkillLen THEN cleaned
        ELSE Append(cleaned, q)

\* DedupStep keyed on the string itself instead of its lowercase
DedupStepMut(out, seen, sk) ==
    IF sk \in seen THEN <<out, seen>>
    ELSE <<Append(out, sk), seen \cup {sk}>>
\* lines 220-224: one turn of the second loop, giving <<out, seen>>
DedupStep(out, seen, sk) ==
    LET k == Lower(sk)
    IN  IF k \in seen THEN <<out, seen>>
        ELSE <<Append(out, sk), seen \cup {k}>>

\* line 225: out[:70]
CapSkills(out) == SubSeq(out, 1, Min2(Len(out), MaxSkills))

(* Inputs *)

\* characters of the exhaustively enumerated lines
SkillChars == {"a", "A", "b", ",", " ", ":"}

ShortInputs ==
    { <<l>> : l \in SeqsUpTo(SkillChars, MaxLineLen) }
    \cup { <<l, m>> : l \in SeqsUpTo(SkillChars, 2), m \in SeqsUpTo(SkillChars, 2) }

\* the k-th word over a, b, c (bijective base 3), k >= 1
RECURSIVE Tok(_)
Tok(k) ==
    LET d == ((k - 1) % 3) + 1
        r == (k - 1) \div 3
    IN  (IF r = 0 THEN <<>> ELSE Tok(r)) \o <<LowerAlpha[d]>>

UpperChar(c) ==
    IF \E i \in DOMAIN LowerAlpha : LowerAlpha[i] = c
    THEN UpperAlpha[CHOOSE i \in DOMAIN LowerAlpha : LowerAlpha[i] = c]
    ELSE c
Upper(s) == [i \in DOMAIN s |-> UpperChar(s[i])]

\* the i-th token of a generated skills section of the given variety
GenToken(variety, i) ==
    CASE variety = "many"     -> IF i = 2 THEN Upper(Tok(1))
                                 ELSE IF i % 2 = 1 THEN Tok(i)
                                 ELSE Upper(Tok(i))
      [] variety = "dups"     -> IF i % 2 = 1 THEN Tok((i + 1) \div 2)
                                 ELSE Upper(Tok(i \div 2))
      [] variety = "long"     -> IF i % 4 = 0
                                 THEN [j \in 1..(MaxSkillLen - 1 + (i \div 4)) |-> "x"]
                                 ELSE Tok(i)

GenDelims == <<<<",", " ">>, <<";">>, <<" ", "/", " ">>, <<"|">>, <<",", ",">>>>

\* tokens from..to with their delimiters
RECURSIVE GenLine(_, _, _)
GenLine(variety, from, to) ==
    IF from > to THEN <<>>
    ELSE GenToken(variety, from) \o GenDelims[(from % Len(GenDelims)) + 1]
         \o GenLine(variety, from + 1, to)

TokensPerLine == 10

\* a skills section of n tokens, ten to a line, the first line with a
\* category label
GenSkillsLines(variety, n) ==
    [ l \in 1..((n + TokensPerLine - 1) \div TokensPerLine) |->
        (IF l = 1 THEN <<"T", "o", "o", "l", "s", ":", " ">> ELSE <<>>)
        \o GenLine(variety, (l - 1) * TokensPerLine + 1,
                   Min2(n, l * TokensPerLine)) ]

GenInputs ==
    { GenSkillsLines(v, n) : v \in {"many", "dups", "long"},
                             n \in 0..MaxTokens }

\* a call of split_skills
InitSkills ==
    /\ AnalyzeIdle
    /\ SectIdle
    /\ sk_pc = "start"
    /\ sk_lines \in ShortInputs \cup GenInputs
    /\ sk_parts = <<>>
    /\ sk_i = 0
    /\ sk_cleaned = <<>>
    /\ sk_out = <<>>
    /\ sk_seen = {}
    /\ sk_result = <<>>

\* lines 206-210
SkillsSplit ==
    /\ sk_pc = "start"
    /\ sk_parts' = SplitFrom(RemovePrefixes(JoinLines(sk_lines), 1))
    /\ sk_i' = 1
    /\ sk_pc' = "clean"
    /\ UNCHANGED <<sk_lines, sk_cleaned, sk_out, sk_seen, sk_result>>
    /\ UNCHANGED <<avars, secvars>>

\* lines 211-217
SkillsClean ==
    /\ sk_pc = "clean"
    /\ sk_i <= Len(sk_parts)
    /\ sk_cleaned' = CleanStep(sk_cleaned, sk_parts[sk_i])
    /\ sk_i' = sk_i + 1
    /\ UNCHANGED <<sk_pc, sk_lines, sk_parts, sk_out, sk_seen, sk_result>>
    /\ UNCHANGED <<avars, secvars>>

\* line 218
SkillsCleaned ==
    /\ sk_pc = "clean"
    /\ sk_i > Len(sk_parts)
    /\ sk_i' = 1
    /\ sk_pc' = "dedup"
    /\ UNCHANGED <<sk_lines, sk_parts, sk_cleaned, sk_out, sk_seen, sk_result>>
    /\ UNCHANGED <<avars, secvars>>

\* lines 219-224
SkillsDedup ==
    /\ sk_pc = "dedup"
    /\ sk_i <= Len(sk_cleaned)
    /\ sk_out' = DedupStep(sk_out, sk_seen, sk_cleaned[sk_i])[1]
    /\ sk_seen' = DedupStep(sk_out, sk_seen, sk_cleaned[sk_i])[2]
    /\ sk_i' = sk_i + 1
    /\ UNCHANGED <<sk_pc, sk_lines, sk_parts, sk_cleaned, sk_result>>
    /\ UNCHANGED <<avars, secvars>>

\* line 225
SkillsReturn ==
    /\ sk_pc = "dedup"
    /\ sk_i > Len(sk_cleaned)
    /\ sk_result' = CapSkills(sk_out)
    /\ sk_pc' = "done"
    /\ UNCHANGED <<sk_lines, sk_parts, sk_i, sk_cleaned, sk_out, sk_seen>>
    /\ UNCHANGED <<avars, secvars>>

NextSkills ==
    \/ SkillsSplit
    \/ SkillsClean
    \/ SkillsCleaned
    \/ SkillsDedup
    \/ SkillsReturn

SpecSkills == InitSkills /\ [][NextSkills]_vars

----------------------------------------------------------------------------
(* Claims *)

Answered == pc \in {"respond", "done"}
Scored == Answered /\ text # EmptyText

\* C1: for a PDF, extract_text_from_pdf runs the primary strategy first and
\* the fallback strategy exactly when the primary text has fewer than 200
\* characters (an unavailable primary backend gives the empty text and so
\* the fallback runs); if the fallback ran the returned text is the longer
\* of the two, the primary one on a tie, and otherwise the primary text.
C1_FallbackPolicy ==
    /\ pc \in {"pdf_fallback", "pdf_return"} => calls = <<"pymupdf">> \/ calls = <<"pymupdf", "pdfplumber">>
    /\ pc = "pdf_fallback" => calls = <<"pymupdf">> /\ text1.len < 200
    /\ (pc \in {"pdf_return", "structured", "score", "respond", "done"}
        /\ upload.ext = "pdf") =>
          /\ calls[1] = "pymupdf"
          /\ (Len(calls) = 2) <=> (text1.len < 200)
          /\ Len(calls) = 2 => calls[2] = "pdfplumber"
          /\ ~fitz => text1 = EmptyText /\ Len(calls) = 2
    /\ (pc \in {"structured", "score", "respond", "done"}
        /\ upload.ext = "pdf") =>
          /\ Len(calls) = 2 =>
                text = IF text2.len > text1.len THEN text2 ELSE text1
          /\ Len(calls) = 1 => text = text1

\* the fallback ran, both texts have the same non-zero length and the
\* primary text was returned
C1_Witness ==
    /\ pc = "structured"
    /\ upload.ext = "pdf"
    /\ calls = <<"pymupdf", "pdfplumber">>
    /\ text1.len = text2.len
    /\ text1.len > 0
    /\ text2 # text1
    /\ text = text1

\* C2: when no text was extracted the seven checks are not run and the
\* dashboard is the fixed degraded one: score 20, ats_parse_rate 10, grade
\* "Needs work", not ats_friendly, the single OCR suggestion, and
\* extraction_failed = TRUE among the signals.
C2_DegradedDashboard ==
    (Answered /\ text = EmptyText) =>
        /\ dashboard.score = 20
        /\ dashboard.ats_parse_rate = 10
        /\ dashboard.grade = "Needs work"
        /\ dashboard.ats_friendly = FALSE
        /\ dashboard.suggestions = <<S_notext>>
        /\ "extraction_failed" \in DOMAIN dashboard.signals
        /\ dashboard.signals["extraction_failed"] = TRUE
        /\ dashboard.checks = <<>>
        /\ measured = EmptyDict

\* a PDF both strategies found empty got the degraded dashboard
C2_Witness ==
    /\ pc = "done"
    /\ text = EmptyText
    /\ calls = <<"pymupdf", "pdfplumber">>
    /\ response.dashboard.score = 20

CheckKeys == <<"ats_parse", "contact", "sections", "impact", "repetition",
               "brevity", "grammar">>

SevenChecks(d) ==
    /\ Len(d.checks) = 7
    /\ \A i \in 1..7 :
          /\ d.checks[i].key = CheckKeys[i]
          /\ d.checks[i].score \in 0..100
          /\ d.checks[i].status \in {"pass", "warn", "fail"}

\* C3 (as claimed): every DashboardScore an analysis produces carries the
\* 7 CheckItems in the fixed order, each with a sub-score in 0..100 and a
\* status among pass, warn, fail.
C3_Original == Answered => SevenChecks(dashboard)

\* C3 (amended): every DashboardScore that compute_dashboard produces carries
\* the 7 CheckItems in the fixed order with sub-scores in 0..100 and statuses
\* among pass, warn, fail; the degraded dashboard carries no CheckItem.
C3_SevenChecksWhenScored ==
    /\ Scored => SevenChecks(dashboard)
    /\ (Answered /\ text = EmptyText) => dashboard.checks = <<>>

\* a scored dashboard whose checks show all three statuses
C3_Witness ==
    /\ Scored
    /\ \A st \in {"pass", "warn", "fail"} :
          \E i \in DOMAIN dashboard.checks : dashboard.checks[i].status = st

SubScore(i) == dashboard.checks[i].score

\* the weighted sum of the reported sub-scores, in hundredths
ReportedSum100 ==
    30 * SubScore(1) + 15 * SubScore(2) + 15 * SubScore(3) + 12 * SubScore(4)
    + 10 * SubScore(5) + 10 * SubScore(6) + 8 * SubScore(7)

\* C4: the overall score of compute_dashboard is the weighted sum
\* 0.30 ats_parse + 0.15 contact + 0.15 sections + 0.12 impact
\* + 0.10 repetition + 0.10 brevity + 0.08 grammar of the sub-scores in the
\* CheckItems, rounded to a nearest integer, and lies in 0..100.
C4_WeightedScore ==
    Scored =>
        /\ dashboard.score \in 0..100
        /\ 100 * dashboard.score - ReportedSum100 <= 50
        /\ ReportedSum100 - 100 * dashboard.score <= 50

\* a scored dashboard whose weighted sum lies exactly between two integers
C4_Witness ==
    /\ Scored
    /\ ReportedSum100 % 100 = 50

\* C5: in every dashboard returned, scored or degraded, ats_friendly holds
\* iff ats_parse_rate >= 70 and score >= 60; so it is false whenever
\* ats_parse_rate < 70.
C5_AtsFriendly ==
    Answered =>
        /\ dashboard.ats_friendly
              <=> (dashboard.ats_parse_rate >= 70 /\ dashboard.score >= 60)
        /\ dashboard.ats_parse_rate < 70 => ~dashboard.ats_friendly

\* a scored dashboard with a passing overall score that is not ats_friendly
\* because the parse rate is low
C5_Witness ==
    /\ Scored
    /\ dashboard.ats_parse_rate < 70
    /\ dashboard.score >= 60
    /\ ~dashboard.ats_friendly

\* the sub-score each check gives when none of its penalties fires
FullScore == <<92, 100, 100, 92, 90, 92, 86>>

\* the checks in which a penalty fired
PenalisedChecks == { i \in 1..7 : SubScore(i) < FullScore[i] }

\* C6 (as claimed): issues is the number of checks in which at least one
\* penalty condition fired, and so is at most 7.
C6_Original ==
    Scored =>
        /\ dashboard.issues = Cardinality(PenalisedChecks)
        /\ dashboard.issues <= 7

B(cond) == IF cond THEN 1 ELSE 0

Detected(k) == DictGet(structured.sections_detected, k, 0) > 0

\* C6 (amended): issues is incremented once per penalty condition that
\* fires, the missing-link condition excepted: it is the number of the
\* conditions scanned text, no email, no phone, no skills section, no
\* education section, neither experience nor projects, fewer than 6
\* numbers, top word 18 times or more, too short or too long, formatting
\* noise that hold; it is at most 10 and a missing link adds nothing.
C6_IssuesPerCondition ==
    Scored =>
        /\ dashboard.issues =
              B(dashboard.checks[1].status = "fail")
              + B(structured.contacts.emails = <<>>)
              + B(structured.contacts.phones = <<>>)
              + B(~Detected("skills"))
              + B(~Detected("education"))
              + B(~(Detected("experience") \/ Detected("projects")))
              + B(measured.nums < 6)
              + B(measured.top >= 18)
              + B(measured.word_count < 220 \/ measured.word_count > 1200)
              + B(measured.caps > 25 \/ measured.weird > 80)
        /\ dashboard.issues <= 10

\* every penalty condition fired: 10 issues over 7 checks
C6_Witness ==
    /\ Scored
    /\ dashboard.issues = 10
    /\ Cardinality(PenalisedChecks) = 7

EmailPhoneNoLink ==
    /\ Scored
    /\ structured.contacts.emails # <<>>
    /\ structured.contacts.phones # <<>>
    /\ structured.contacts.linkedin = <<>>
    /\ structured.contacts.github = <<>>
    /\ structured.contacts.portfolio = <<>>

\* C7 (as claimed): with an email and a phone but no link the contact check
\* has sub-score 90 and status "warn".
C7_Original ==
    EmailPhoneNoLink =>
        /\ dashboard.checks[2].score = 90
        /\ dashboard.checks[2].status = "warn"

\* C7 (amended): with an email and a phone but no link the contact check
\* has sub-score 90 (only the link penalty of 10) and status "pass".
C7_LinkPenaltyOnly ==
    EmailPhoneNoLink =>
        /\ dashboard.checks[2].key = "contact"
        /\ dashboard.checks[2].score = 90
        /\ dashboard.checks[2].status = "pass"

\* a scored record with email and phone and no link, the link suggestion made
C7_Witness ==
    /\ EmailPhoneNoLink
    /\ pc = "done"
    /\ \E i \in DOMAIN dashboard.suggestions : dashboard.suggestions[i] = S_link

\* the suggestions of the conditions that fired, in check order
ExpectedSuggestions ==
    (IF dashboard.checks[1].status = "fail" THEN <<S_ocr>> ELSE <<>>)
    \o (IF structured.contacts.emails = <<>> THEN <<S_email>> ELSE <<>>)
    \o (IF structured.contacts.phones = <<>> THEN <<S_phone>> ELSE <<>>)
    \o (IF /\ structured.contacts.linkedin = <<>>
           /\ structured.contacts.github = <<>>
           /\ structured.contacts.portfolio = <<>>
        THEN <<S_link>> ELSE <<>>)
    \o (IF ~Detected("skills") THEN <<S_skills>> ELSE <<>>)
    \o (IF ~Detected("education") THEN <<S_edu>> ELSE <<>>)
    \o (IF ~(Detected("experience") \/ Detected("projects"))
        THEN <<S_exp>> ELSE <<>>)
    \o (IF measured.nums < 6 THEN <<S_impact>> ELSE <<>>)
    \o (IF measured.top >= 18 THEN <<S_rep>> ELSE <<>>)
    \o (IF measured.word_count < 220 THEN <<S_short>>
        ELSE IF measured.word_count > 1200 THEN <<S_long>> ELSE <<>>)
    \o (IF measured.caps > 25 \/ measured.weird > 80 THEN <<S_noise>> ELSE <<>>)

\* C10: the suggestions of compute_dashboard are those of the conditions
\* that fired, in check order, with no two equal up to case and at most 12
\* of them, and none is lost to the truncation: every penalised check (such
\* as brevity when word_count < 220) has its suggestion in the list.
C10_Suggestions ==
    Scored =>
        LET sg == dashboard.suggestions
        IN  /\ sg = ExpectedSuggestions
            /\ Len(sg) <= 12
            /\ \A i, j \in DOMAIN sg : i # j => StrLower(sg[i]) # StrLower(sg[j])
            /\ measured.word_count < 220 => \E i \in DOMAIN sg : sg[i] = S_short
            /\ \A c \in PenalisedChecks :
                  \E i \in DOMAIN sg :
                     sg[i] \in CASE c = 1 -> {S_ocr}
                                 [] c = 2 -> {S_email, S_phone, S_link}
                                 [] c = 3 -> {S_skills, S_edu, S_exp}
                                 [] c = 4 -> {S_impact}
                                 [] c = 5 -> {S_rep}
                                 [] c = 6 -> {S_short, S_long}
                                 [] c = 7 -> {S_noise}

\* every condition fired on a short text: all 11 suggestions are returned
C10_Witness ==
    /\ Scored
    /\ measured.word_count < 220
    /\ Len(dashboard.suggestions) = 11
    /\ dashboard.suggestions[10] = S_short

\* C8: split_skills returns at most 70 entries, each non-empty and of at
\* most 45 characters, no two equal after lowercasing, in the order of
\* their first occurrence in the input: an entry is the first token with
\* its lowercase form, and no earlier first token is left out.
C8_SkillsList ==
    sk_pc = "done" =>
        LET r  == sk_result
            lr == [i \in DOMAIN r |-> Lower(r[i])]
            lc == [j \in DOMAIN sk_cleaned |-> Lower(sk_cleaned[j])]
            \* where the lowercase form of entry i first occurs among the tokens
            fo == [i \in DOMAIN r |->
                     CHOOSE j \in DOMAIN lc :
                        /\ lc[j] = lr[i]
                        /\ \A x \in 1..(j - 1) : lc[x] # lr[i]]
        IN  /\ Len(r) <= 70
            /\ \A i \in DOMAIN r : r[i] # <<>> /\ Len(r[i]) <= 45
            /\ \A i, j \in DOMAIN r : i # j => lr[i] # lr[j]
            /\ \A i \in DOMAIN r : \E j \in DOMAIN lc : lc[j] = lr[i]
            /\ \A i \in DOMAIN r : r[i] = sk_cleaned[fo[i]]
            /\ \A i \in DOMAIN r : i > 1 => fo[i - 1] < fo[i]
            /\ \A j \in DOMAIN lc :
                  (Len(r) < 70 \/ j < fo[Len(r)])
                  => \E i \in DOMAIN r : lr[i] = lc[j]

\* more than 70 distinct skills, a case variant among the tokens: the list
\* was cut to 70 and the later variant dropped
C8_Witness ==
    /\ sk_pc = "done"
    /\ Len(sk_out) > 70
    /\ Len(sk_result) = 70
    /\ Len(sk_cleaned) > Len(sk_out)
    /\ Lower(sk_cleaned[2]) = Lower(sk_cleaned[1])
    /\ sk_cleaned[2] # sk_cleaned[1]
    /\ sk_result[1] = sk_cleaned[1]

\* the bucket of line j, hk[h] being the heading key of line h: the section
\* of the last heading before it
Owner(hk, j) ==
    LET hs == { h \in 1..(j - 1) : hk[h] # "None" }
    IN  IF hs = {} THEN "_unknown" ELSE hk[SetMax(hs)]

\* the non-heading lines among the first n that belong to bucket k, in order
RECURSIVE OwnedLines(_, _, _)
OwnedLines(hk, k, n) ==
    IF n = 0 THEN <<>>
    ELSE OwnedLines(hk, k, n - 1)
         \o (IF hk[n] = "None" /\ Owner(hk, n) = k
             THEN <<sec_lines[n]>> ELSE <<>>)

RECURSIVE SumLens(_, _)
SumLens(secs, ks) ==
    IF ks = {} THEN 0
    ELSE LET k == CHOOSE x \in ks : TRUE
         IN  Len(secs[k]) + SumLens(secs, ks \ {k})

\* C9: sectionize puts every non-heading line in exactly one bucket, that of
\* the most recent heading before it or _unknown when there is none; no
\* heading line is in a bucket, each bucket keeps the input order, the
\* bucket sizes add up to the number of non-heading lines, and
\* sections_detected gives the sizes of the 7 canonical buckets, without
\* _unknown.
C9_Sectionize ==
    sec_pc = "done" =>
        LET n  == Len(sec_lines)
            hk == [j \in DOMAIN sec_lines |-> heading_key(sec_lines[j])]
        IN  /\ DOMAIN sections = SectionKeys \cup {"_unknown"}
            /\ \A k \in DOMAIN sections : sections[k] = OwnedLines(hk, k, n)
            /\ \A k \in DOMAIN sections : \A i \in DOMAIN sections[k] :
                  \E j \in 1..n : hk[j] = "None" /\ sec_lines[j] = sections[k][i]
            /\ \A j \in 1..n : hk[j] # "None" =>
                  \A k \in DOMAIN sections : \A i \in DOMAIN sections[k] :
                     sections[k][i] # sec_lines[j]
            /\ SumLens(sections, DOMAIN sections)
                  = Cardinality({ j \in 1..n : hk[j] = "None" })
            /\ DOMAIN sections_detected = SectionKeys
            /\ \A k \in SectionKeys : sections_detected[k] = Len(sections[k])

\* lines before the first heading, and lines under two different headings
C9_Witness ==
    /\ sec_pc = "done"
    /\ Len(sec_lines) = 4
    /\ sections["_unknown"] # <<>>
    /\ sections_detected["skills"] = 1
    /\ Cardinality({ j \in DOMAIN sec_lines :
                        heading_key(sec_lines[j]) # "None" }) = 2

PdfExtracted ==
    /\ pc \in {"structured", "score", "respond", "done"}
    /\ upload.ext = "pdf"

\* C11: in every result of extract_text_from_pdf the primary entry of the
\* meta is the metadata of the strategy whose text was returned; the
\* fallback entry is the metadata of the other strategy when the fallback
\* strategy ran, and is empty when it never ran.
C11_MetaEntries ==
    PdfExtracted =>
        /\ DOMAIN meta = {"primary", "fallback"}
        /\ text = text1 => meta.primary = meta1
        /\ (text # text1) =>
              /\ text = text2
              /\ meta.primary = meta2
              /\ meta.primary.method = "pdfplumber"
              /\ meta.fallback = meta1
        /\ text # EmptyText => meta.primary.method = text.src
        /\ (calls = <<"pymupdf", "pdfplumber">> /\ text = text1) =>
              /\ meta.fallback = meta2
              /\ meta.fallback.method = "pdfplumber"
        /\ calls = <<"pymupdf">> => meta.fallback = EmptyDict
        /\ meta.fallback = EmptyDict <=> calls = <<"pymupdf">>

\* the fallback text was returned: its metadata is primary and the
\* discarded PyMuPDF attempt is kept under fallback
C11_Witness ==
    /\ PdfExtracted
    /\ fitz
    /\ text = text2
    /\ text2.len > text1.len
    /\ text1.len > 0
    /\ meta.primary.method = "pdfplumber"
    /\ meta.fallback.method = "pymupdf"

====
